---- MODULE Spec2Model ----
(***************************************************************************)
(* Model of setup.py of pytide: the version resolver revision() with its   *)
(* file rewriting, and the cmake build driver (Build, BuildExt).           *)
(*                                                                         *)
(* Text is modelled as a sequence of symbols.  A symbol is one character,  *)
(* or one of the identifiers the regular expressions of setup.py compare   *)
(* against ("version", "release", "result", ...), taken as one indivisible *)
(* run of word characters.                                                 *)
(***************************************************************************)
EXTENDS Integers, Sequences, FiniteSets, TLC

\* ------------------------------------------------------------------ bounds
MaxInvocations == 2     \* build invocations in one process
MaxExt == 2             \* declared extensions (targets) per invocation
MaxRuns == 2            \* calls of revision() on one source tree
MaxConfLines == 2       \* lines of docs/source/conf.py
MaxTagLen == 3          \* symbols of a tag name

\* ------------------------------------------------------------ value sets
None == "<None>"
Platforms == {"Linux", "Darwin", "Windows"}
CpuCounts == {1, 4}
CompilerValues == {"g++"}
EigenValues == {"/opt/eigen3"}

\* the paths probed under sys.prefix
CondaMeta == "<prefix>/conda-meta"
IncludeEigen == "<prefix>/include/eigen3"
LibraryIncludeEigen == "<prefix>/Library/include/eigen3"
LibraryInclude == "<prefix>/Library/include"
ProbedPaths == {CondaMeta, IncludeEigen, LibraryIncludeEigen, LibraryInclude}

VARIABLES
    CXX_COMPILER,        \* BuildExt.CXX_COMPILER (class attribute)
    EIGEN3_INCLUDE_DIR,  \* BuildExt.EIGEN3_INCLUDE_DIR (class attribute)
    cxx_compiler,        \* Build.cxx_compiler of the current invocation
    eigen_root,          \* Build.eigen_root of the current invocation
    platform_system,     \* platform.system()
    cpu_count,           \* os.cpu_count()
    fs_exists,           \* the probed paths that exist
    conda_importable,    \* "import conda" succeeds
    debug, verbose, dry_run,  \* build_ext flags of the current invocation
    extensions,          \* number of declared extensions
    process_cwd,         \* working directory: depth below the source root
    cwd_at_entry,        \* working directory when the last build_cmake began
    pc,                  \* "idle", "build_ext", "done", "failed"
    ext_idx,             \* index of the next extension of BuildExt.run
    spawned,             \* commands executed by this invocation, in order
    cmake_args,          \* configure arguments last assembled
    build_args,          \* build arguments last assembled
    super_run,           \* super().run() of BuildExt.run has run
    error,               \* exception that ended the invocation, or None
    invocations,         \* build invocations started so far
    last_op,             \* the operation that produced this state
    file_meta,           \* conda/meta.yaml: [exists, lines]
    file_conf,           \* docs/source/conf.py
    file_module,         \* src/pytide/version.py
    prev_meta, prev_conf, prev_module,  \* the files before the last revision()
    conf0,               \* docs/source/conf.py before the first revision()
    describe_case,       \* what "git describe" reported to the last revision()
    parsed,              \* version and sha1 of lines 72-79 in the last call
    executed,            \* commands the last revision() executed, in order
    rev_result,          \* [status, value]: "returned" a version or "raised"
    rewrites,            \* versions conf.py was rewritten with, in order
    runs                 \* calls of revision() so far

buildVars == <<CXX_COMPILER, EIGEN3_INCLUDE_DIR, cxx_compiler, eigen_root,
               platform_system, cpu_count, fs_exists, conda_importable,
               debug, verbose, dry_run, extensions, process_cwd, cwd_at_entry,
               pc, ext_idx, spawned, cmake_args, build_args, super_run, error,
               invocations>>

versionVars == <<file_meta, file_conf, file_module, prev_meta, prev_conf,
                 prev_module, conf0, describe_case, parsed, executed,
                 rev_result, rewrites, runs>>

vars == <<buildVars, versionVars, last_op>>

\* ------------------------------------------------------------- helpers
Contains(args, a) == \E i \in DOMAIN args : args[i] = a

Count(args, P(_)) == Cardinality({i \in DOMAIN args : P(args[i])})

Upper(cfg) == IF cfg = "Debug" THEN "DEBUG" ELSE "RELEASE"

exists(path) == path \in fs_exists

\* ================================================================ text
\* Character classes of Python's re: \d, \w and \s on the symbols used.
Digits == {"0", "1", "2", "3"}
Letters == {"v", "a", "c", "g", "d", "i", "r", "t", "y", "x"}
Identifiers == {"version", "release", "copyright", "project", "result", "set",
                "Get", "software", "information", "def", "full", "bool",
                "False", "str", "Returns", "the", "number", "if", "return",
                "pytide", "CNES", "CLS", "2019", "2020", "dd", "Month"}

WordSymbols == Digits \cup Letters \cup Identifiers
SpaceSymbols == {" ", "\n"}

IsDigit(c) == c \in Digits
IsWord(c) == c \in WordSymbols
IsSpace(c) == c \in SpaceSymbols
IsTagChar(c) == IsWord(c) \/ c = "."

AllIn(s, a, b, P(_)) == \A k \in a..b : P(s[k])

Max(S) == CHOOSE x \in S : \A y \in S : y <= x
Min(S) == CHOOSE x \in S : \A y \in S : x <= y

\* s holds lit at position p
HasAt(s, p, lit) ==
    /\ p >= 1
    /\ p + Len(lit) - 1 <= Len(s)
    /\ \A k \in 1..Len(lit) : s[p + k - 1] = lit[k]

NoMatch == [matched |-> FALSE, g1 |-> <<>>, g3 |-> <<>>]

\* ------------------------------------------------ patterns of revision()
\* re.compile(r'([\w\d\.]+)-(\d+)-g([\w\d]+)(?:-(dirty))?').search(s):
\* the leftmost start, each group as long as the rest of the pattern allows.
TagEnds1(s, p) ==
    {e \in p..Len(s) - 1 : AllIn(s, p, e, IsTagChar) /\ s[e + 1] = "-"}

TagEnds2(s, e1) ==
    {e \in e1 + 2..Len(s) - 2 :
        AllIn(s, e1 + 2, e, IsDigit) /\ s[e + 1] = "-" /\ s[e + 2] = "g"}

TagEnds3(s, e2) == {e \in e2 + 3..Len(s) : AllIn(s, e2 + 3, e, IsWord)}

TagGoodEnds2(s, e1) == {e \in TagEnds2(s, e1) : TagEnds3(s, e) # {}}

TagGoodEnds1(s, p) == {e \in TagEnds1(s, p) : TagGoodEnds2(s, e) # {}}

TagSearch(s) ==
    LET starts == {p \in 1..Len(s) : TagGoodEnds1(s, p) # {}}
    IN  IF starts = {} THEN NoMatch
        ELSE LET p == Min(starts)
                 e1 == Max(TagGoodEnds1(s, p))
                 e2 == Max(TagGoodEnds2(s, e1))
                 e3 == Max(TagEnds3(s, e2))
             IN  [matched |-> TRUE, g1 |-> SubSeq(s, p, e1),
                  g3 |-> SubSeq(s, e2 + 3, e3)]

\* re.compile(r'([\w\d]+)(?:-(dirty))?').search(s)
HashSearch(s) ==
    LET starts == {p \in 1..Len(s) : IsWord(s[p])}
    IN  IF starts = {} THEN NoMatch
        ELSE LET p == Min(starts)
                 e == Max({e \in p..Len(s) : AllIn(s, p, e, IsWord)})
             IN  [matched |-> TRUE, g1 |-> SubSeq(s, p, e), g3 |-> <<>>]

\* re.compile(r'\s+result = "(.*)"').search(line)
ResultPrefix == <<"result", " ", "=", " ", "\"">>

\* The positions of the last character of \s+ in a match, with the closing
\* quotes that can end (.*), which never crosses a newline.
ResultQuotes(line, q) ==
    {e \in q + 6..Len(line) :
        line[e] = "\"" /\ \A k \in q + 6..e - 1 : line[k] # "\n"}

ResultAnchors(line) ==
    {q \in 1..Len(line) - 6 :
        /\ IsSpace(line[q])
        /\ HasAt(line, q + 1, ResultPrefix)
        /\ ResultQuotes(line, q) # {}}

\* (variant: the pattern without its leading \s+, matched at the line start)
ResultSearch_column0(line) ==
    IF HasAt(line, 1, ResultPrefix) /\ ResultQuotes(line, 0) # {}
    THEN [matched |-> TRUE, g3 |-> <<>>,
          g1 |-> SubSeq(line, 6, Max(ResultQuotes(line, 0)) - 1)]
    ELSE NoMatch

\* The leftmost match is the one with the leftmost anchor; (.*) is greedy and
\* ends at the last quote of the line.
ResultSearch(line) ==
    IF ResultAnchors(line) = {} THEN NoMatch
    ELSE LET q == Min(ResultAnchors(line))
         IN  [matched |-> TRUE, g3 |-> <<>>,
              g1 |-> SubSeq(line, q + 6, Max(ResultQuotes(line, q)) - 1)]

\* re.compile(r'(\w+)\s+=\s+(.*)').search(line): group 1
KeyEnds(line, p) ==
    {e \in p..Len(line) :
        /\ AllIn(line, p, e, IsWord)
        /\ \E q \in e + 1..Len(line) - 2 :
              /\ AllIn(line, e + 1, q, IsSpace)
              /\ line[q + 1] = "="
              /\ IsSpace(line[q + 2])}

KeySearch(line) ==
    LET starts == {p \in 1..Len(line) : KeyEnds(line, p) # {}}
    IN  IF starts = {} THEN NoMatch
        ELSE LET p == Min(starts)
             IN  [matched |-> TRUE, g1 |-> SubSeq(line, p, Max(KeyEnds(line, p))),
                  g3 |-> <<>>]

\* re.compile(r'{% set version = ".*" %}').search(line)
MetaPrefix == <<"{%", " ", "set", " ", "version", " ", "=", " ", "\"">>
MetaSuffix == <<"\"", " ", "%}">>

MetaSearch(line) ==
    \E p \in 1..Len(line) :
        /\ HasAt(line, p, MetaPrefix)
        /\ \E e \in p + Len(MetaPrefix)..Len(line) :
              /\ HasAt(line, e, MetaSuffix)
              /\ \A k \in p + Len(MetaPrefix)..e - 1 : line[k] # "\n"

\* ------------------------------------------------------ the date
\* datetime.datetime.utcfromtimestamp(int(stdout[1])).year
IsLeap(y) == (y % 4 = 0 /\ y % 100 # 0) \/ y % 400 = 0

RECURSIVE YearFrom(_, _)
YearFrom(y, days) ==
    LET n == IF IsLeap(y) THEN 366 ELSE 365
    IN  IF days < n THEN y ELSE YearFrom(y + 1, days - n)

YearOf(timestamp) == YearFrom(1970, timestamp \div 86400)

\* date.strftime("%d %B %Y"): day and month are kept symbolic
DateText(timestamp) == <<"dd", " ", "Month", " ", ToString(YearOf(timestamp))>>

\* ------------------------------------------------------ the files
Absent == [exists |-> FALSE, lines |-> <<>>]
File(lines) == [exists |-> TRUE, lines |-> lines]

\* "version = %r\n" % version: the repr of a str without quotes in it
Repr(text) == <<"'">> \o text \o <<"'">>

\* (variant: "version=%r\n")
VersionLine_unspaced(version) == <<"version", "=">> \o Repr(version) \o <<"\n">>

VersionLine(version) ==
    <<"version", " ", "=", " ">> \o Repr(version) \o <<"\n">>

ReleaseLine(version) ==
    <<"release", " ", "=", " ">> \o Repr(version) \o <<"\n">>

CopyrightLine(year) ==
    <<"copyright", " ", "=", " ", "'", "(", ToString(year), ",", " ",
      "CNES", "/", "CLS", ")", "'", "\n">>

\* lines 97-105: the replacement of one line of conf.py
ConfRewriteLine(line, version, year) ==
    LET match == KeySearch(line)
    IN  IF ~match.matched THEN line
        ELSE IF match.g1 = <<"version">> THEN VersionLine(version)
        ELSE IF match.g1 = <<"release">> THEN ReleaseLine(version)
        ELSE IF match.g1 = <<"copyright">> THEN CopyrightLine(year)
        ELSE line

ConfRewrite(lines, version, year) ==
    [idx \in DOMAIN lines |-> ConfRewriteLine(lines[idx], version, year)]

\* update_meta
MetaLine(version) == MetaPrefix \o version \o MetaSuffix \o <<"\n">>

update_meta(lines, version) ==
    [idx \in DOMAIN lines |->
        IF MetaSearch(lines[idx]) THEN MetaLine(version) ELSE lines[idx]]

\* lines 111-124: the text of src/pytide/version.py
ModuleText(version, timestamp) ==
    << <<"\"", "\"", "\"", "\n">>,
       <<"Get", " ", "software", " ", "version", " ", "information", "\n">>,
       <<"=", "=", "=", "=", "\n">>,
       <<"\"", "\"", "\"", "\n">>,
       <<"\n">>,
       <<"\n">>,
       <<"def", " ", "release", "(", "full", ":", " ", "bool", " ", "=", " ",
         "False", ")", " ", "-", ">", " ", "str", ":", "\n">>,
       <<" ", " ", " ", " ", "\"", "\"", "\"", "Returns", " ", "the", " ",
         "software", " ", "version", " ", "number", "\"", "\"", "\"", "\n">>,
       <<" ", " ", " ", " ", "result", " ", "=", " ", "\"">> \o version
           \o <<"\"", "\n">>,
       <<" ", " ", " ", " ", "if", " ", "full", ":", "\n">>,
       <<" ", " ", " ", " ", " ", " ", " ", " ", "result", " ", "+", "=", " ",
         "\"", " ", "(">> \o DateText(timestamp) \o <<")", "\"", "\n">>,
       <<" ", " ", " ", " ", "return", " ", "result", "\n">> >>

\* lines 63-69: the first line of the module the pattern matches
ModuleScan(lines) ==
    LET hits == {i \in DOMAIN lines : ResultSearch(lines[i]).matched}
    IN  IF hits = {} THEN NoMatch ELSE ResultSearch(lines[Min(hits)])

\* ------------------------------------------------ git describe
\* "git describe --tags --dirty --long --always", stripped: nothing outside a
\* repository, the abbreviated hash when no tag exists, else tag-count-ghash,
\* each with -dirty when the working copy is modified.
DirtyMark(dirty) == IF dirty THEN <<"-", "d", "i", "r", "t", "y">> ELSE <<>>

Describe(case) ==
    IF case.kind = "none" THEN <<>>
    ELSE IF case.kind = "bare" THEN case.hash \o DirtyMark(case.dirty)
    ELSE case.tag \o <<"-">> \o case.count \o <<"-", "g">> \o case.hash
         \o DirtyMark(case.dirty)

NoRepository ==
    [kind |-> "none", tag |-> <<>>, count |-> <<>>, hash |-> <<>>,
     dirty |-> FALSE]

\* lines 56-58 and 72-79
ParseDescribe(stdout) ==
    LET match == TagSearch(stdout)
    IN  IF ~match.matched
        THEN LET loose == HashSearch(stdout)
             IN  [raised |-> ~loose.matched, version |-> <<"0", ".", "1">>,
                  sha1 |-> loose.g1]
        ELSE [raised |-> FALSE, version |-> match.g1, sha1 |-> match.g3]

\* ------------------------------------------------------- git log
\* execute('git log %s -1 --format="%%H %%at"' % sha1).strip().split(): the
\* hash and the author date of a commit of the repository, nothing for a
\* revision git does not know.
Hashes == {<<"a", "1">>, <<"d">>}

AuthorDate(hash) == IF hash = <<"a", "1">> THEN 1577836799  \* 2019-12-31 23:59:59
                    ELSE 1577836800                          \* 2020-01-01 00:00:00

GitLog(sha1) == IF sha1 \in Hashes THEN <<sha1, AuthorDate(sha1)>> ELSE <<>>

\* ------------------------------------------------------- revision
\* One call of revision().  case is the state of the repository that
\* "git describe" reports.
revision(case) ==
    \E stdout \in {Describe(case)} :
    \E p \in {ParseDescribe(stdout)} :
    \E log \in {GitLog(p.sha1)} :
    LET timestamp == log[2]
        year == YearOf(timestamp)
        meta == IF file_meta.exists
                THEN File(update_meta(file_meta.lines, p.version))
                ELSE file_meta
    IN
    /\ runs < MaxRuns
    /\ runs' = runs + 1
    /\ describe_case' = case
    /\ prev_meta' = file_meta
    /\ prev_conf' = file_conf
    /\ prev_module' = file_module
    /\ last_op' = "revision"
    /\ UNCHANGED conf0
    /\ IF stdout = <<>>
       THEN /\ executed' = <<"describe">>
            /\ parsed' = [version |-> <<>>, sha1 |-> <<>>]
            /\ \E found \in {ModuleScan(file_module.lines)} :
                  rev_result' =
                     IF ~file_module.exists
                     THEN [status |-> "raised", value |-> <<"FileNotFoundError">>]
                     ELSE IF found.matched
                     THEN [status |-> "returned", value |-> found.g1]
                     ELSE [status |-> "raised", value |-> <<"AssertionError">>]
            /\ UNCHANGED <<file_meta, file_conf, file_module, rewrites>>
       ELSE IF p.raised
       THEN /\ executed' = <<"describe">>
            /\ parsed' = [version |-> <<>>, sha1 |-> <<>>]
            /\ rev_result' = [status |-> "raised", value |-> <<"AttributeError">>]
            /\ UNCHANGED <<file_meta, file_conf, file_module, rewrites>>
       ELSE /\ executed' = <<"describe", "log">>
            /\ parsed' = [version |-> p.version, sha1 |-> p.sha1]
            /\ IF Len(log) < 2
               THEN /\ rev_result' = [status |-> "raised",
                                      value |-> <<"IndexError">>]
                    /\ UNCHANGED <<file_meta, file_conf, file_module, rewrites>>
               ELSE IF ~file_conf.exists
               THEN /\ file_meta' = meta
                    /\ rev_result' = [status |-> "raised",
                                      value |-> <<"FileNotFoundError">>]
                    /\ UNCHANGED <<file_conf, file_module, rewrites>>
               ELSE /\ file_meta' = meta
                    /\ file_conf' = File(ConfRewrite(file_conf.lines, p.version, year))
                    /\ file_module' = File(ModuleText(p.version, timestamp))
                    /\ rewrites' = Append(rewrites, p.version)
                    /\ rev_result' = [status |-> "returned", value |-> p.version]
    /\ UNCHANGED buildVars

\* ------------------------------------------------ source trees
ConfLineSet ==
    { <<"version", " ", "=", " ", "'", "0", "'", "\n">>,
      <<"release", " ", "=", " ", "'", "0", "'", "\n">>,
      <<"copyright", " ", "=", " ", "'", "2018", "'", "\n">>,
      <<"project", " ", "=", " ", "'", "pytide", "'", "\n">>,
      <<"#", " ", "the", " ", "version", " ", "=", " ", "x", "\n">> }

ConfFiles ==
    {Absent} \cup
    {File(l) : l \in UNION {[1..n -> ConfLineSet] : n \in 1..MaxConfLines}}

MetaFiles ==
    {Absent,
     File(<< <<"package", ":", "\n">>, MetaLine(<<"0">>),
             <<" ", " ", "version", ":", " ", "x", "\n">> >>)}

ModuleFiles ==
    {Absent,
     File(<< <<"\"", "\"", "\"", "\n">>, <<"\n">> >>),
     File(ModuleText(<<"1", ".", "2", ".", "3">>, AuthorDate(<<"d">>)))}

\* the repositories revision() is run in
Counts == {<<"2">>, <<"1", "0">>}
TagChars == {"v", "1", ".", "-"}

\* tag names git accepts: no leading "-" or ".", no trailing ".", no ".."
Tags ==
    {t \in UNION {[1..n -> TagChars] : n \in 1..MaxTagLen} :
        /\ t[1] \notin {"-", "."}
        /\ t[Len(t)] # "."
        /\ \A k \in 1..Len(t) - 1 : ~(t[k] = "." /\ t[k + 1] = ".")}

Tagged(tag, count, hash, dirty) ==
    [kind |-> "tagged", tag |-> tag, count |-> count, hash |-> hash,
     dirty |-> dirty]

Bare(hash, dirty) ==
    [kind |-> "bare", tag |-> <<>>, count |-> <<>>, hash |-> hash,
     dirty |-> dirty]

AllCases ==
    {NoRepository}
    \cup {Bare(h, d) : h \in Hashes, d \in BOOLEAN}
    \cup {Tagged(t, c, h, d) : t \in Tags, c \in Counts, h \in Hashes,
                               d \in BOOLEAN}

VersionCases ==
    {NoRepository,
     Bare(<<"a", "1">>, FALSE),
     Tagged(<<"v", "1">>, <<"2">>, <<"a", "1">>, FALSE),
     Tagged(<<"1", ".", "0">>, <<"1", "0">>, <<"d">>, TRUE)}

VersionIdle ==
    /\ prev_meta = file_meta
    /\ prev_conf = file_conf
    /\ prev_module = file_module
    /\ conf0 = file_conf
    /\ describe_case = NoRepository
    /\ parsed = [version |-> <<>>, sha1 |-> <<>>]
    /\ executed = <<>>
    /\ rev_result = [status |-> "none", value |-> <<>>]
    /\ rewrites = <<>>
    /\ runs = 0

\* build specifications: no call of revision() is looked at
NoVersion ==
    /\ file_meta = Absent
    /\ file_conf = Absent
    /\ file_module = Absent
    /\ VersionIdle

\* =============================================================== build
\* ------------------------------------------------- BuildExt.is_conda
is_conda == IF exists(CondaMeta) THEN TRUE ELSE conda_importable

\* ---------------------------------------------------- BuildExt.eigen
\* The result is [raised |-> BOOLEAN, value |-> argument].
\* (variant: eigen without the existence test of line 160)
eigen_unchecked ==
    IF exists(IncludeEigen)
    THEN [raised |-> FALSE, value |-> <<"-DEIGEN3_INCLUDE_DIR=", IncludeEigen>>]
    ELSE [raised |-> FALSE,
          value |-> <<"-DEIGEN3_INCLUDE_DIR=",
                      IF ~exists(LibraryIncludeEigen) THEN LibraryInclude
                      ELSE LibraryIncludeEigen>>]

eigen ==
    IF exists(IncludeEigen)
    THEN [raised |-> FALSE, value |-> <<"-DEIGEN3_INCLUDE_DIR=", IncludeEigen>>]
    ELSE LET d1 == LibraryIncludeEigen
             d2 == IF ~exists(d1) THEN LibraryInclude ELSE d1
         IN  IF ~exists(d2)
             THEN [raised |-> TRUE, value |-> <<>>]
             ELSE [raised |-> FALSE, value |-> <<"-DEIGEN3_INCLUDE_DIR=", d2>>]

\* ------------------------------------- BuildExt.set_cmake_user_options
\* (variant: the conda location is looked at before the override)
eigen_option_override_lost ==
    IF is_conda
    THEN IF eigen.raised THEN [raised |-> TRUE, value |-> <<>>]
         ELSE [raised |-> FALSE, value |-> <<eigen.value>>]
    ELSE IF EIGEN3_INCLUDE_DIR # None
         THEN [raised |-> FALSE,
               value |-> <<<<"-DEIGEN3_INCLUDE_DIR=", EIGEN3_INCLUDE_DIR>>>>]
         ELSE [raised |-> FALSE, value |-> <<>>]

eigen_option ==
    IF EIGEN3_INCLUDE_DIR # None
    THEN [raised |-> FALSE,
          value |-> <<<<"-DEIGEN3_INCLUDE_DIR=", EIGEN3_INCLUDE_DIR>>>>]
    ELSE IF is_conda
         THEN IF eigen.raised THEN [raised |-> TRUE, value |-> <<>>]
              ELSE [raised |-> FALSE, value |-> <<eigen.value>>]
         ELSE [raised |-> FALSE, value |-> <<>>]

set_cmake_user_options ==
    LET cxx == IF CXX_COMPILER # None
               THEN <<<<"-DCMAKE_CXX_COMPILER=", CXX_COMPILER>>>>
               ELSE <<>>
    IN  IF eigen_option.raised
        THEN [raised |-> TRUE, value |-> <<>>]
        ELSE [raised |-> FALSE, value |-> cxx \o eigen_option.value]

\* --------------------------------------------- argument assembly
\* build_cmake, lines 207-233: cfg, cmake_args and build_args.
cfg == IF debug THEN "Debug" ELSE "Release"

extdir == "<extdir>"

\* (variant: the arguments of the non-Windows branch on every platform)
assemble_cmake_args_no_platform(user) ==
    <<<<"-DCMAKE_LIBRARY_OUTPUT_DIRECTORY=", extdir>>,
      <<"-DPYTHON_EXECUTABLE=", "<sys.executable>">>>> \o user
    \o <<<<"-DCMAKE_BUILD_TYPE=", cfg>>>>

assemble_cmake_args(user) ==
    <<<<"-DCMAKE_LIBRARY_OUTPUT_DIRECTORY=", extdir>>,
      <<"-DPYTHON_EXECUTABLE=", "<sys.executable>">>>> \o user
    \o (IF platform_system # "Windows"
        THEN <<<<"-DCMAKE_BUILD_TYPE=", cfg>>>>
             \o (IF platform_system = "Darwin"
                 THEN <<<<"-DCMAKE_OSX_DEPLOYMENT_TARGET=", "10.14">>>>
                 ELSE <<>>)
        ELSE << <<"-G">>, <<"Visual Studio 15 2017">>,
                <<"-DCMAKE_GENERATOR_PLATFORM=", "x64">>,
                <<"-DCMAKE_LIBRARY_OUTPUT_DIRECTORY_", Upper(cfg), "=", extdir>> >>)

assemble_build_args ==
    LET base == << <<"--config">>, <<cfg>> >>
        plat == IF platform_system # "Windows"
                THEN base \o << <<"--">>, <<"-j", ToString(cpu_count)>> >>
                ELSE base \o << <<"--">>, <<"/m">> >>
                     \o (IF verbose THEN << <<"/verbosity:n">> >> ELSE <<>>)
    IN  IF verbose THEN << <<"--verbose">> >> \o plat ELSE plat

\* ------------------------------------------------------ Build.run
\* A build invocation: Build.initialize_options, the user's options (None
\* when not supplied), then Build.run up to the point where the build_ext
\* sub-command starts.
BuildRun(cxx, root) ==
    /\ pc \in {"idle", "done", "failed"}
    /\ invocations < MaxInvocations
    /\ invocations' = invocations + 1
    /\ cxx_compiler' = cxx
    /\ eigen_root' = root
    /\ CXX_COMPILER' = IF cxx # None THEN cxx ELSE CXX_COMPILER
    /\ EIGEN3_INCLUDE_DIR' = IF root # None THEN root ELSE EIGEN3_INCLUDE_DIR
    /\ pc' = "build_ext"
    /\ ext_idx' = 1
    /\ spawned' = <<>>
    /\ cmake_args' = <<>>
    /\ build_args' = <<>>
    /\ cwd_at_entry' = process_cwd
    /\ super_run' = FALSE
    /\ error' = None
    /\ last_op' = "Build.run"
    /\ UNCHANGED <<platform_system, cpu_count, fs_exists, conda_importable,
                   debug, verbose, dry_run, extensions, process_cwd>>
    /\ UNCHANGED versionVars

\* ---------------------------------------------------------- spawn
\* self.spawn(cmd): distutils runs the command and raises DistutilsExecError
\* when it exits with a non-zero status.
\* (variant: the exit status is ignored)
spawn_never_raises(status) == FALSE

spawn_raises(status) == status # 0

\* ------------------------------------------------ BuildExt.build_cmake
\* One iteration of the loop of BuildExt.run.  configure_status and
\* build_status are the exit statuses of the two cmake commands; under dry_run
\* distutils' spawn runs nothing, and the code itself skips the build command.
build_cmake(configure_status, build_status) ==
    /\ pc = "build_ext"
    /\ ext_idx <= extensions
    /\ cwd_at_entry' = process_cwd
    /\ last_op' = "build_cmake"
    /\ LET user == set_cmake_user_options
           configure == [ext |-> ext_idx, cmd |-> "configure",
                         status |-> configure_status]
           build == [ext |-> ext_idx, cmd |-> "build", status |-> build_status]
       IN  IF user.raised
           THEN /\ error' = "RuntimeError"
                /\ pc' = "failed"
                /\ UNCHANGED <<process_cwd, spawned, cmake_args, build_args,
                               ext_idx>>
           ELSE /\ cmake_args' = assemble_cmake_args(user.value)
                /\ build_args' = assemble_build_args
                /\ IF dry_run
                   THEN /\ process_cwd' = process_cwd
                        /\ UNCHANGED <<spawned, error>>
                        /\ ext_idx' = ext_idx + 1
                        /\ pc' = pc
                   ELSE IF spawn_raises(configure_status)
                   THEN /\ process_cwd' = process_cwd + 1
                        /\ spawned' = Append(spawned, configure)
                        /\ error' = "DistutilsExecError"
                        /\ pc' = "failed"
                        /\ UNCHANGED ext_idx
                   ELSE IF spawn_raises(build_status)
                   THEN /\ process_cwd' = process_cwd + 1
                        /\ spawned' = spawned \o <<configure, build>>
                        /\ error' = "DistutilsExecError"
                        /\ pc' = "failed"
                        /\ UNCHANGED ext_idx
                   ELSE /\ process_cwd' = process_cwd
                        /\ spawned' = spawned \o <<configure, build>>
                        /\ ext_idx' = ext_idx + 1
                        /\ UNCHANGED <<error, pc>>
    /\ UNCHANGED <<CXX_COMPILER, EIGEN3_INCLUDE_DIR, cxx_compiler, eigen_root,
                   platform_system, cpu_count, fs_exists, conda_importable,
                   debug, verbose, dry_run, extensions, super_run, invocations>>
    /\ UNCHANGED versionVars

\* ------------------------------------------------------ BuildExt.run
\* The end of the loop: super().run().
BuildExtSuperRun ==
    /\ pc = "build_ext"
    /\ ext_idx > extensions
    /\ super_run' = TRUE
    /\ pc' = "done"
    /\ last_op' = "super().run()"
    /\ UNCHANGED <<CXX_COMPILER, EIGEN3_INCLUDE_DIR, cxx_compiler, eigen_root,
                   platform_system, cpu_count, fs_exists, conda_importable,
                   debug, verbose, dry_run, extensions, process_cwd,
                   cwd_at_entry, ext_idx, spawned, cmake_args, build_args,
                   error, invocations>>
    /\ UNCHANGED versionVars

\* ------------------------------------------------------------- Init
\* The process before any build invocation.  The environment (platform, cpu
\* count, file system, importability of conda), the flags of the build_ext
\* command and the declared extensions are fixed for the process.
BuildIdle ==
    /\ CXX_COMPILER = None
    /\ EIGEN3_INCLUDE_DIR = None
    /\ cxx_compiler = None
    /\ eigen_root = None
    /\ fs_exists \in SUBSET ProbedPaths
    /\ conda_importable \in BOOLEAN
    /\ dry_run \in BOOLEAN
    /\ extensions \in 1..MaxExt
    /\ process_cwd = 0
    /\ cwd_at_entry = 0
    /\ pc = "idle"
    /\ ext_idx = 1
    /\ spawned = <<>>
    /\ cmake_args = <<>>
    /\ build_args = <<>>
    /\ super_run = FALSE
    /\ error = None
    /\ invocations = 0
    /\ last_op = "init"

InitBuild ==
    /\ BuildIdle
    /\ NoVersion
    /\ platform_system \in Platforms
    /\ cpu_count = 4
    /\ debug = FALSE
    /\ verbose = FALSE

NextBuild ==
    \/ \E cxx \in CompilerValues \cup {None}, root \in EigenValues \cup {None} :
          BuildRun(cxx, root)
    \/ \E cs \in {0, 1}, bs \in {0, 1} : build_cmake(cs, bs)
    \/ BuildExtSuperRun

SpecBuild == InitBuild /\ [][NextBuild]_vars

\* One build invocation on every platform with every flag: the state when
\* BuildExt.run starts, then the targets.
InitArgs ==
    /\ CXX_COMPILER \in CompilerValues \cup {None}
    /\ EIGEN3_INCLUDE_DIR \in EigenValues \cup {None}
    /\ cxx_compiler = CXX_COMPILER
    /\ eigen_root = EIGEN3_INCLUDE_DIR
    /\ platform_system \in Platforms
    /\ cpu_count \in CpuCounts
    /\ fs_exists \in SUBSET ProbedPaths
    /\ conda_importable \in BOOLEAN
    /\ debug \in BOOLEAN
    /\ verbose \in BOOLEAN
    /\ dry_run \in BOOLEAN
    /\ extensions \in 1..MaxExt
    /\ process_cwd = 0
    /\ cwd_at_entry = 0
    /\ pc = "build_ext"
    /\ ext_idx = 1
    /\ spawned = <<>>
    /\ cmake_args = <<>>
    /\ build_args = <<>>
    /\ super_run = FALSE
    /\ error = None
    /\ invocations = 1
    /\ last_op = "Build.run"
    /\ NoVersion

NextArgs ==
    \/ \E cs \in {0, 1}, bs \in {0, 1} : build_cmake(cs, bs)
    \/ BuildExtSuperRun

SpecArgs == InitArgs /\ [][NextArgs]_vars


\* version specifications: no build invocation is looked at
NoBuild ==
    /\ BuildIdle
    /\ fs_exists = {}
    /\ conda_importable = FALSE
    /\ dry_run = FALSE
    /\ extensions = 1
    /\ platform_system = "Linux"
    /\ cpu_count = 4
    /\ debug = FALSE
    /\ verbose = FALSE

InitVersion ==
    /\ NoBuild
    /\ file_meta \in MetaFiles
    /\ file_conf \in ConfFiles
    /\ file_module \in ModuleFiles
    /\ VersionIdle

NextVersion == \E case \in VersionCases : revision(case)

SpecVersion == InitVersion /\ [][NextVersion]_vars

\* one call of revision() in a development tree, for every repository state
InitDescribe ==
    /\ NoBuild
    /\ file_meta \in MetaFiles
    /\ file_conf = File(<< <<"version", " ", "=", " ", "'", "0", "'", "\n">>,
                           <<"release", " ", "=", " ", "'", "0", "'", "\n">> >>)
    /\ file_module = Absent
    /\ VersionIdle

revision_once(case) == runs = 0 /\ revision(case)

NextDescribe == \E case \in AllCases : revision_once(case)

SpecDescribe == InitDescribe /\ [][NextDescribe]_vars

\* ================================================= build properties
IsEigenDef(a) == a[1] = "-DEIGEN3_INCLUDE_DIR="

SpawnedFor(e) == {i \in DOMAIN spawned : spawned[i].ext = e}

\* C1: after build_cmake ends, on every outcome, the working directory is the
\* one the process had when build_cmake started.
C1_CwdRestored == last_op = "build_cmake" => process_cwd = cwd_at_entry

\* C2: a build command is spawned only right after the configure command of
\* the same target exited with status zero; a command that exits non-zero is
\* the last command of the invocation, which is then failed, commands are
\* never repeated, targets are taken in order, and super().run() runs only
\* when every target was processed without failure.
C2_Pipeline ==
    /\ \A i \in DOMAIN spawned :
          /\ spawned[i].cmd = "build" =>
                /\ i > 1
                /\ spawned[i - 1] = [ext |-> spawned[i].ext, cmd |-> "configure",
                                     status |-> 0]
          /\ spawned[i].status # 0 =>
                /\ i = Len(spawned)
                /\ pc = "failed"
                /\ error = "DistutilsExecError"
          /\ \A j \in DOMAIN spawned :
                /\ (i < j => spawned[i].ext <= spawned[j].ext)
                /\ (i # j => <<spawned[i].ext, spawned[i].cmd>>
                             # <<spawned[j].ext, spawned[j].cmd>>)
    /\ pc = "failed" => ~super_run
    /\ super_run =>
          /\ ext_idx > extensions
          /\ \A i \in DOMAIN spawned : spawned[i].status = 0

C2_Witness ==
    /\ pc = "failed"
    /\ Len(spawned) = 4
    /\ spawned[4] = [ext |-> 2, cmd |-> "build", status |-> 1]
    /\ extensions > 1

\* C3 as stated: with no override and neither <prefix>/include/eigen3 nor
\* <prefix>/Library/include/eigen3 present, building a target fails with the
\* dependency error before any command is spawned.
C3_Original ==
    (/\ last_op = "build_cmake"
     /\ EIGEN3_INCLUDE_DIR = None
     /\ ~exists(IncludeEigen)
     /\ ~exists(LibraryIncludeEigen))
    => (error = "RuntimeError" /\ SpawnedFor(ext_idx) = {})

\* C3 amended: with no override, in a conda distribution, and none of
\* <prefix>/include/eigen3, <prefix>/Library/include/eigen3 and
\* <prefix>/Library/include present, building a target fails with RuntimeError
\* before any command is spawned for it.
C3_Amended ==
    (/\ last_op = "build_cmake"
     /\ EIGEN3_INCLUDE_DIR = None
     /\ is_conda
     /\ ~exists(IncludeEigen)
     /\ ~exists(LibraryIncludeEigen)
     /\ ~exists(LibraryInclude))
    => (/\ error = "RuntimeError"
        /\ pc = "failed"
        /\ SpawnedFor(ext_idx) = {}
        /\ process_cwd = cwd_at_entry)

C3_Witness ==
    /\ last_op = "build_cmake"
    /\ EIGEN3_INCLUDE_DIR = None
    /\ is_conda
    /\ fs_exists \cap {IncludeEigen, LibraryIncludeEigen, LibraryInclude} = {}
    /\ error = "RuntimeError"

\* C4: with an include-directory override set, the configure arguments hold
\* exactly one EIGEN3_INCLUDE_DIR definition, its value is the override, and
\* the target does not fail for a missing auto-detected location, whatever
\* the environment and whichever probed locations exist.
C4_OverrideWins ==
    (last_op = "build_cmake" /\ EIGEN3_INCLUDE_DIR # None)
    => (/\ error # "RuntimeError"
        /\ Count(cmake_args, IsEigenDef) = 1
        /\ Contains(cmake_args, <<"-DEIGEN3_INCLUDE_DIR=", EIGEN3_INCLUDE_DIR>>))

C4_Witness ==
    /\ last_op = "build_cmake"
    /\ EIGEN3_INCLUDE_DIR # None
    /\ is_conda
    /\ exists(IncludeEigen)
    /\ Len(cmake_args) > 0

\* C9: the overrides a target is built with are those of the current build
\* invocation: the supplied value, or unset when the user supplied none.
C9_OptionsOfThisInvocation ==
    pc = "build_ext" =>
        (CXX_COMPILER = cxx_compiler /\ EIGEN3_INCLUDE_DIR = eigen_root)

\* C10: the configure arguments always hold the output-directory and the
\* interpreter-path flags; the build type exactly off Windows, the deployment
\* target exactly on Darwin, the generator, the 64-bit platform and the
\* configuration-suffixed output directory exactly on Windows; the build
\* arguments hold the parallelism flag after the "--" separator.
C10_PlatformArgs ==
    (last_op = "build_cmake" /\ error # "RuntimeError") =>
    LET win == platform_system = "Windows"
        jobs == IF win THEN <<"/m">> ELSE <<"-j", ToString(cpu_count)>>
    IN  /\ Contains(cmake_args, <<"-DCMAKE_LIBRARY_OUTPUT_DIRECTORY=", extdir>>)
        /\ Contains(cmake_args, <<"-DPYTHON_EXECUTABLE=", "<sys.executable>">>)
        /\ Contains(cmake_args, <<"-DCMAKE_BUILD_TYPE=", cfg>>) <=> ~win
        /\ (\E i \in DOMAIN cmake_args : cmake_args[i][1] = "-DCMAKE_BUILD_TYPE=")
              <=> ~win
        /\ Contains(cmake_args, <<"-DCMAKE_OSX_DEPLOYMENT_TARGET=", "10.14">>)
              <=> platform_system = "Darwin"
        /\ (\E i \in DOMAIN cmake_args :
               /\ i < Len(cmake_args)
               /\ cmake_args[i] = <<"-G">>
               /\ cmake_args[i + 1] = <<"Visual Studio 15 2017">>) <=> win
        /\ Contains(cmake_args, <<"-DCMAKE_GENERATOR_PLATFORM=", "x64">>) <=> win
        /\ Contains(cmake_args, <<"-DCMAKE_LIBRARY_OUTPUT_DIRECTORY_",
                                   Upper(cfg), "=", extdir>>) <=> win
        /\ (\E i \in DOMAIN cmake_args :
               cmake_args[i][1] = "-DCMAKE_LIBRARY_OUTPUT_DIRECTORY_") <=> win
        /\ \E i, j \in DOMAIN build_args :
               /\ i < j
               /\ build_args[i] = <<"--">>
               /\ build_args[j] = jobs
        /\ ~Contains(build_args, IF win THEN <<"-j", ToString(cpu_count)>>
                                 ELSE <<"/m">>)

C10_Witness ==
    /\ last_op = "build_cmake"
    /\ platform_system = "Linux"
    /\ cpu_count = 4
    /\ Contains(build_args, <<"-j", "4">>)
    /\ verbose /\ debug

\* =============================================== version properties
DescribeOutput == Describe(describe_case)

Key(line) == KeySearch(line).g1

KeyLines(file, key) == {i \in DOMAIN file.lines : Key(file.lines[i]) = <<key>>}

\* the line ends with the quoted value
Holds(line, value) ==
    /\ Len(line) > Len(value) + 2
    /\ HasAt(line, Len(line) - Len(value) - 2, Repr(value) \o <<"\n">>)

\* the versions V for which the file has a line     result = "V"
\* in the body of a function of the module
EmbeddedVersions(file) ==
    {SubSeq(file.lines[i], 10, Len(file.lines[i]) - 2) :
        i \in {j \in DOMAIN file.lines :
                 /\ Len(file.lines[j]) >= 11
                 /\ HasAt(file.lines[j], 1, <<" ", " ", " ", " ">> \o ResultPrefix)
                 /\ HasAt(file.lines[j], Len(file.lines[j]) - 1, <<"\"", "\n">>)}}

\* C5: with describe output, revision() returns the resolved version whether
\* or not conda/meta.yaml and docs/source/conf.py exist; an absent file stays
\* absent.
C5_AbsentFilesSkipped ==
    (last_op = "revision" /\ DescribeOutput # <<>>) =>
        /\ rev_result = [status |-> "returned", value |-> parsed.version]
        /\ ~prev_meta.exists => ~file_meta.exists
        /\ ~prev_conf.exists => ~file_conf.exists

\* C6: without describe output and with    result = "V"    in the version
\* module, revision() returns V, runs no "git log" and leaves the three files
\* as they were.
C6_Fallback ==
    (last_op = "revision" /\ DescribeOutput = <<>>) =>
        \A V \in EmbeddedVersions(prev_module) :
            /\ rev_result = [status |-> "returned", value |-> V]
            /\ executed = <<"describe">>
            /\ file_meta = prev_meta
            /\ file_conf = prev_conf
            /\ file_module = prev_module

C6_Witness ==
    /\ last_op = "revision"
    /\ DescribeOutput = <<>>
    /\ runs = 2
    /\ rewrites = << <<"v", "1">> >>
    /\ rev_result = [status |-> "returned", value |-> <<"v", "1">>]

C8_TagAndHash ==
    (last_op = "revision" /\ describe_case.kind = "tagged") =>
        /\ parsed = [version |-> describe_case.tag, sha1 |-> describe_case.hash]
        /\ \A dirty \in BOOLEAN :
              LET other == ParseDescribe(Describe(
                               [describe_case EXCEPT !.dirty = dirty]))
              IN  /\ ~other.raised
                  /\ other.version = parsed.version
                  /\ other.sha1 = parsed.sha1

====
